---- MODULE Spec2Model ----
(***************************************************************************)
(* ApiDocPrinter (packages/docgen/src/docgen/ApiDocsPrinter.ts): renders    *)
(* an ApiDoc model as calls on a MarkdownPrinter obtained from the injected *)
(* printerFactory.  Strings are sequences of one-character strings, so that *)
(* String.replace(/ApiRef$/, '') and the < of strings are computed.         *)
(* Template strings are sequences of fragments: a literal, an interpolated  *)
(* value, a markdown link [label](target) or a printer.srcLink(...) result. *)
(***************************************************************************)
EXTENDS Integers, Sequences, FiniteSets, TLC

VARIABLES
  apiDocs,   \* the caller's ApiDoc[]: the argument of both render calls
  apiType,   \* the caller's InterfaceInfo: the argument of printInterface
  surfaces,  \* the printers the factory has returned: the calls made on each
             \* (log), and whether toBuffer has been called on it (buffered)
  calls,     \* the render calls so far: kind, the printer held in the local
             \* `printer`, the number of printer calls made (pc), status
  naming     \* a raw API name, the results of apiDisplayName applied to it
             \* repeatedly (shown) and to it with ApiRef appended (marked)

vars == <<apiDocs, apiType, surfaces, calls, naming>>

(* ------------------------------ bounds -------------------------------- *)
MaxApis == 2
MaxDeps == 3
MaxMembers == 1
MaxRenders == 2
MaxCalls == 2
MaxPieces == 3
MaxApplications == 2

(* ------------------------------ strings ------------------------------- *)
Upper == <<"A","B","C","D","E","F","G","H","I","J","K","L","M",
           "N","O","P","Q","R","S","T","U","V","W","X","Y","Z">>
Lower == <<"a","b","c","d","e","f","g","h","i","j","k","l","m",
           "n","o","p","q","r","s","t","u","v","w","x","y","z">>

\* UTF-16 code unit of a letter: what the < of two JS strings compares.
CodeUnit(c) ==
  IF \E i \in 1..Len(Upper) : Upper[i] = c
  THEN 64 + (CHOOSE i \in 1..Len(Upper) : Upper[i] = c)
  ELSE 96 + (CHOOSE i \in 1..Len(Lower) : Lower[i] = c)

\* a < b on strings: lexicographic on code units, a proper prefix is smaller.
StringLess(a, b) ==
  \E k \in 1..(Len(b)) :
     /\ \A j \in 1..(k - 1) : j <= Len(a) /\ a[j] = b[j]
     /\ k - 1 <= Len(a)
     /\ (k = Len(a) + 1 \/ (k <= Len(a) /\ CodeUnit(a[k]) < CodeUnit(b[k])))

Marker == <<"A","p","i","R","e","f">>
EndsWith(s, suffix) ==
  /\ Len(s) >= Len(suffix)
  /\ SubSeq(s, Len(s) - Len(suffix) + 1, Len(s)) = suffix

\* variant: the regex applied until it matches no more
StripAllMarkers(name) ==
  LET n == CHOOSE k \in 0..Len(name) :
             /\ \E m \in 0..Len(name) :
                  /\ k + m * Len(Marker) = Len(name)
                  /\ \A j \in 1..m :
                       SubSeq(name, k + (j - 1) * Len(Marker) + 1,
                              k + j * Len(Marker)) = Marker
             /\ ~EndsWith(SubSeq(name, 1, k), Marker)
  IN SubSeq(name, 1, n)

\* api.name.replace(/ApiRef$/, ''): the regex is anchored at the end of the
\* input and replace() without the g flag replaces one match.
ApiDisplayName(name) ==
  IF EndsWith(name, Marker)
  THEN SubSeq(name, 1, Len(name) - Len(Marker))
  ELSE name

(* ----------------------------- fragments ------------------------------ *)
NoAnchor == ""
NoName == <<>>
Lit(s) == [kind |-> "lit", lit |-> s, name |-> NoName, disp |-> NoName, id |-> NoAnchor]
Val(s) == [kind |-> "val", lit |-> s, name |-> NoName, disp |-> NoName, id |-> NoAnchor]
Str(n) == [kind |-> "str", lit |-> "", name |-> n, disp |-> NoName, id |-> NoAnchor]
\* `[${label}](${target})` where target is fn(arg, key) on the printer
MdLink(label, fn, arg, key) ==
  [kind |-> "link", lit |-> fn, name |-> label, disp |-> arg, id |-> key]
\* printer.srcLink(obj, label?)
SrcLink(objId, label) ==
  [kind |-> "src", lit |-> "srcLink", name |-> label, disp |-> NoName, id |-> objId]

Header(level, text, anchor) ==
  [op |-> "header", level |-> level, text |-> text, anchor |-> anchor]
Paragraph(text) == [op |-> "paragraph", level |-> 0, text |-> text, anchor |-> NoAnchor]
Text(text) == [op |-> "text", level |-> 0, text |-> text, anchor |-> NoAnchor]
Code(path) == [op |-> "code", level |-> 0, text |-> <<>>, anchor |-> path]

RECURSIVE Join(_, _)
\* Array.prototype.join of fragments
Join(items, sep) ==
  IF Len(items) = 0 THEN <<>>
  ELSE IF Len(items) = 1 THEN <<items[1]>>
  ELSE <<items[1], sep>> \o Join(Tail(items), sep)

RECURSIVE Flatten(_)
Flatten(seqs) ==
  IF Len(seqs) = 0 THEN <<>> ELSE Head(seqs) \o Flatten(Tail(seqs))


(* ------------------------- printApiIndex ------------------------------ *)
\* variant: length !== 1
PluralUnlessOne(n) == IF n /= 1 THEN "s" ELSE ""
\* `${typeLinks.length > 1 ? 's' : ''}`
TypeLabelSuffix(n) == IF n > 1 THEN "s" ELSE ""

\* i => `[${i.name}](${printer.pageLink(i.name)})`
TypeLink(i) == MdLink(i.name, "pageLink", i.name, NoAnchor)

\* variant: the source link printed before the description
ApiSectionSourceFirst(api) ==
  LET typeLinks == [k \in 1..Len(api.interfaceInfos) |-> TypeLink(api.interfaceInfos[k])]
  IN << Header(3, <<Str(ApiDisplayName(api.name))>>, api.id),
        Paragraph(<<Lit("ApiRef: "), SrcLink(api.id, api.name)>>),
        Paragraph(<<Lit("Implemented type"),
                    Lit(TypeLabelSuffix(Len(typeLinks))), Lit(": ")>>
                  \o Join(typeLinks, Lit(", "))),
        Paragraph(<<Val(api.description)>>) >>

\* the body of `for (const api of apiDocs)`
ApiSection(api) ==
  LET typeLinks == [k \in 1..Len(api.interfaceInfos) |-> TypeLink(api.interfaceInfos[k])]
  IN << Header(3, <<Str(ApiDisplayName(api.name))>>, api.id),
        Paragraph(<<Val(api.description)>>),
        Paragraph(<<Lit("Implemented type"),
                    Lit(TypeLabelSuffix(Len(typeLinks))), Lit(": ")>>
                  \o Join(typeLinks, Lit(", "))),
        Paragraph(<<Lit("ApiRef: "), SrcLink(api.id, api.name)>>) >>

\* every call printApiIndex makes on its printer before toBuffer, in order
\* (the backquotes of the introduction's markdown are left out of the literals)
PrintApiIndexCalls(docs) ==
  << Header(1, <<Lit("Backstage Core Utility APIs")>>, NoAnchor),
     Paragraph(<<
       Lit("The following is a list of all Utility APIs defined by @backstage/core."),
       Lit("They are available to use by plugins and components, and can be accessed "),
       Lit("using the useApi hook, also provided by @backstage/core."),
       Lit("For more information, see https://github.com/backstage/backstage/blob/master/docs/api/utility-apis.md.")>>) >>
  \o Flatten([k \in 1..Len(docs) |-> ApiSection(docs[k])])

(* ------------------------- printInterface ----------------------------- *)
\* variant: i.id === apiType.id
ImplementsById(ad, t) ==
  \E k \in 1..Len(ad.interfaceInfos) : ad.interfaceInfos[k].id = t.id
\* ad => ad.interfaceInfos.some(i => i.name === apiType.name)
Implements(ad, t) ==
  \E k \in 1..Len(ad.interfaceInfos) : ad.interfaceInfos[k].name = t.name

\* variant: the display name as the label
ApiLinkDisplayLabel(ad) ==
  MdLink(ApiDisplayName(ad.name), "indexLink+headerLink", ApiDisplayName(ad.name), ad.id)
\* `[${ad.name}](${printer.indexLink() + printer.headerLink(apiDisplayName(ad), ad.id)})`
ApiLink(ad) ==
  MdLink(ad.name, "indexLink+headerLink", ApiDisplayName(ad.name), ad.id)

\* variant: apiLinks.length <= 1
ImplementerCallsAtMostOne(apiLinks) ==
  IF Len(apiLinks) <= 1
  THEN << Paragraph(<<Lit("The following Utility API implements this type: ")>>
                    \o Join(apiLinks, Lit(","))) >>
  ELSE << Paragraph(<<Lit("The following Utility APIs implement this type:")>>) >>
       \o [k \in 1..Len(apiLinks) |-> Text(<<Lit("  - "), apiLinks[k]>>)]
\* if (apiLinks.length === 1) ... else ...; `${apiLinks}` is the array's
\* toString, its elements joined by ","
ImplementerCalls(apiLinks) ==
  IF Len(apiLinks) = 1
  THEN << Paragraph(<<Lit("The following Utility API implements this type: ")>>
                    \o Join(apiLinks, Lit(","))) >>
  ELSE << Paragraph(<<Lit("The following Utility APIs implement this type:")>>) >>
       \o [k \in 1..Len(apiLinks) |-> Text(<<Lit("  - "), apiLinks[k]>>)]

\* the body of `for (const member of apiType.members)`
MemberSection(member) ==
  << Header(3, <<Str(member.name),
                 Lit(IF member.type = "method" THEN "()" ELSE "")>>, member.path) >>
  \o [k \in 1..Len(member.docs) |-> Text(<<Val(member.docs[k])>>)]
  \o << Code(member.path) >>

AddInterfaceMembers(t) == Flatten([k \in 1..Len(t.members) |-> MemberSection(t.members[k])])

NameOf(x) == x.name
\* the comparator sortSelector(x => x.name) applied to (a, b): -1, 0 or 1 by
\* the < of the selected keys
sortSelector(a, b) ==
  IF StringLess(NameOf(a), NameOf(b)) THEN -1
  ELSE IF StringLess(NameOf(b), NameOf(a)) THEN 1
  ELSE 0

\* one step of a stable sort: x goes after every element not greater than it
InsertStable(sorted, x) ==
  LET k == Cardinality({i \in 1..Len(sorted) : sortSelector(sorted[i], x) <= 0})
  IN SubSeq(sorted, 1, k) \o <<x>> \o SubSeq(sorted, k + 1, Len(sorted))

RECURSIVE SortByName(_, _)
\* Array.prototype.sort(sortSelector(x => x.name)) on the first n elements:
\* the sort is stable (ECMAScript 2019), so its result is the one order that
\* is ascending under the comparator and keeps ties in their input order
SortByName(arr, n) ==
  IF n = 0 THEN <<>> ELSE InsertStable(SortByName(arr, n - 1), arr[n])

\* variants: no sort; sort() without slice()
Unsorted(arr) == [receiver |-> arr, result |-> arr]
SortInPlace(arr) ==
  [receiver |-> SortByName(arr, Len(arr)), result |-> SortByName(arr, Len(arr))]
\* apiType.dependentTypes.slice().sort(...): receiver is the array
\* apiType.dependentTypes after the expression, result the array iterated
SliceSort(arr) == [receiver |-> arr, result |-> SortByName(arr, Len(arr))]

HasLinkTo(member, type) ==
  \E k \in 1..Len(member.links) : member.links[k].id = type.id

\* variant: only apiType.members scanned
UsageLinksMembersOnly(t, type) ==
  LET users == SelectSeq(t.members, LAMBDA member : HasLinkTo(member, type))
  IN [k \in 1..Len(users) |->
        MdLink(users[k].name, "headerLink", users[k].name, users[k].path)]
\* [...apiType.members, ...apiType.dependentTypes].filter(...).map(...)
UsageLinks(t, type) ==
  LET users == SelectSeq(t.members \o t.dependentTypes,
                         LAMBDA member : HasLinkTo(member, type))
  IN [k \in 1..Len(users) |->
        MdLink(users[k].name, "headerLink", users[k].name, users[k].path)]

\* the body of the loop of addInterfaceTypes
TypeSection(t, type) ==
  << Header(3, <<Str(type.name)>>, type.path) >>
  \o [k \in 1..Len(type.docs) |-> Text(<<Val(type.docs[k])>>)]
  \o << Code(type.path),
        Paragraph(<<Lit("Defined at "), SrcLink(type.id, NoName), Lit(".")>>) >>
  \o (IF Len(UsageLinks(t, type)) > 0
      THEN << Paragraph(<<Lit("Referenced by: ")>>
                        \o Join(UsageLinks(t, type), Lit(", ")) \o <<Lit(".")>>) >>
      ELSE <<>>)

AddInterfaceTypes(t) ==
  LET s == SliceSort(t.dependentTypes)
      after == [t EXCEPT !.dependentTypes = s.receiver]
  IN Flatten([k \in 1..Len(s.result) |-> TypeSection(after, s.result[k])])

\* apiType as printInterface leaves it
AfterPrintInterface(t) ==
  IF Len(t.dependentTypes) > 0
  THEN [t EXCEPT !.dependentTypes = SliceSort(t.dependentTypes).receiver]
  ELSE t

\* apiDocs.filter(...).map(...)
ApiLinks(t, docs) ==
  LET impl == SelectSeq(docs, LAMBDA ad : Implements(ad, t))
  IN [k \in 1..Len(impl) |-> ApiLink(impl[k])]

\* every call printInterface makes on its printer before toBuffer, in order
PrintInterfaceCalls(t, docs) ==
  << Header(1, <<Str(t.name)>>, NoAnchor),
     Paragraph(<<Lit("The "), Str(t.name), Lit(" type is defined at "),
                 SrcLink(t.id, NoName), Lit(".")>>) >>
  \o ImplementerCalls(ApiLinks(t, docs))
  \o << Header(2, <<Lit("Members")>>, NoAnchor) >>
  \o AddInterfaceMembers(t)
  \o (IF Len(t.dependentTypes) > 0
      THEN << Header(2, <<Lit("Supporting types")>>, NoAnchor),
              Paragraph(<<Lit("These types are part of the API declaration, but may not be unique to this API.")>>) >>
           \o AddInterfaceTypes(t)
      ELSE <<>>)

(* --------------------------- input models ----------------------------- *)
Foo == <<"F","o","o">>
Bar == <<"B","a","r">>
Baz == <<"B","a","z">>
Alt == <<"A","l","t">>
Apple == <<"A","p","p","l","e">>
Mango == <<"M","a","n","g","o">>
Zebra == <<"Z","e","b","r","a">>
apple == <<"a","p","p","l","e">>
Get == <<"g","e","t">>
Size == <<"s","i","z","e">>

\* InterfaceInfo as an ApiDoc refers to it: two types named Foo, one named Bar
TypeRefs ==
  { [id |-> "t1", name |-> Foo], [id |-> "t2", name |-> Foo],
    [id |-> "t3", name |-> Bar] }
T1 == [id |-> "t1", name |-> Foo]
T2 == [id |-> "t2", name |-> Foo]
T3 == [id |-> "t3", name |-> Bar]

\* ApiDoc values (unique ids): zero, one and two implemented types, names
\* with the ApiRef suffix once, twice and not at all
ApiCatalogue ==
  { [id |-> "a1", name |-> Foo \o Marker, description |-> "d1",
     interfaceInfos |-> <<T1>>],
    [id |-> "a2", name |-> Alt \o Marker, description |-> "d2",
     interfaceInfos |-> <<T2>>],
    [id |-> "a3", name |-> Bar \o Marker, description |-> "",
     interfaceInfos |-> <<T3, T1>>],
    [id |-> "a4", name |-> Baz, description |-> "d4",
     interfaceInfos |-> <<>>],
    [id |-> "a5", name |-> Foo \o Marker \o Marker, description |-> "d5",
     interfaceInfos |-> <<T1>>] }

L(d) == [id |-> d]
\* TypeInfo values (unique ids and paths): equal names, a lower-case name,
\* links to itself, to others and to none
DepCatalogue ==
  { [id |-> "d1", name |-> Apple, path |-> "p1", docs |-> <<"doc">>, links |-> <<>>],
    [id |-> "d2", name |-> Mango, path |-> "p2", docs |-> <<>>, links |-> <<L("d1")>>],
    [id |-> "d3", name |-> Zebra, path |-> "p3", docs |-> <<>>,
     links |-> <<L("d3"), L("d2")>>],
    [id |-> "d4", name |-> Apple, path |-> "p4", docs |-> <<>>, links |-> <<L("d2")>>],
    [id |-> "d5", name |-> apple, path |-> "p5", docs |-> <<>>, links |-> <<L("d1")>>] }

\* FieldInfo values (unique paths)
MemberCatalogue ==
  { [name |-> Get, type |-> "method", path |-> "m1", docs |-> <<"doc1", "doc2">>,
     links |-> <<L("d1"), L("d3")>>],
    [name |-> Size, type |-> "prop", path |-> "m2", docs |-> <<>>, links |-> <<>>],
    [name |-> Foo, type |-> "prop", path |-> "m3", docs |-> <<"doc3">>,
     links |-> <<L("d2")>>] }

\* the sequences of at most n distinct elements of S
Arrays(S, n) ==
  UNION { { q \in [1..k -> S] : \A i, j \in 1..k : i /= j => q[i] /= q[j] } : k \in 0..n }

InterfaceInfo(ref, members, dependentTypes) ==
  [id |-> ref.id, name |-> ref.name, members |-> members,
   dependentTypes |-> dependentTypes]

NoNaming == [raw |-> NoName, shown |-> <<>>, marked |-> <<>>]

\* a model with any API collection and a type without members
InitApis ==
  /\ apiDocs \in Arrays(ApiCatalogue, MaxApis)
  /\ apiType \in { InterfaceInfo(r, <<>>, <<>>) : r \in TypeRefs }

\* a model with one API and a type with any members and dependent types
InitTypes ==
  /\ apiDocs = << CHOOSE a \in ApiCatalogue : a.id = "a1" >>
  /\ apiType \in { InterfaceInfo(T1, ms, ds) :
                     ms \in Arrays(MemberCatalogue, MaxMembers),
                     ds \in Arrays(DepCatalogue, MaxDeps) }

Init ==
  /\ InitApis \/ InitTypes
  /\ surfaces = <<>>
  /\ calls = <<>>
  /\ naming = NoNaming

(* ------------------------- the render calls --------------------------- *)
\* this.printerFactory(): a fresh surface, nothing printed on it yet
NewSurface == [log |-> <<>>, buffered |-> FALSE]

\* printApiIndex(apiDocs), run to its return
PrintApiIndex ==
  /\ Len(calls) < MaxRenders
  /\ surfaces' = Append(surfaces,
        [log |-> PrintApiIndexCalls(apiDocs), buffered |-> TRUE])
  /\ calls' = Append(calls,
        [kind |-> "index", printer |-> Len(surfaces) + 1,
         pc |-> Len(PrintApiIndexCalls(apiDocs)), status |-> "returned"])
  /\ UNCHANGED <<apiDocs, apiType, naming>>

\* printInterface(apiType, apiDocs), run to its return
PrintInterface ==
  /\ Len(calls) < MaxRenders
  /\ surfaces' = Append(surfaces,
        [log |-> PrintInterfaceCalls(apiType, apiDocs), buffered |-> TRUE])
  /\ calls' = Append(calls,
        [kind |-> "interface", printer |-> Len(surfaces) + 1,
         pc |-> Len(PrintInterfaceCalls(apiType, apiDocs)), status |-> "returned"])
  /\ apiType' = AfterPrintInterface(apiType)
  /\ UNCHANGED <<apiDocs, naming>>

Next == PrintApiIndex \/ PrintInterface

Spec == Init /\ [][Next]_vars

(* ---------------------- reading a printed page ------------------------ *)
Returned(kind) ==
  { c \in 1..Len(calls) : calls[c].kind = kind /\ calls[c].status = "returned" }
LogOf(c) == surfaces[calls[c].printer].log

\* the fragments of the given kind in a run of printer calls, in order
Fragments(run, kind) ==
  SelectSeq(Flatten([k \in 1..Len(run) |-> run[k].text]), LAMBDA f : f.kind = kind)

IsHeader(call, level) == call.op = "header" /\ call.level = level
IsParagraph(call, lead) ==
  call.op = "paragraph" /\ Len(call.text) > 0 /\ call.text[1] = Lit(lead)

\* where the i-th entry's section starts on an index page, less one
SectionBase(i) == 2 + 4 * (i - 1)

MembersAt(log) ==
  CHOOSE m \in 1..Len(log) : IsHeader(log[m], 2) /\ log[m].text = <<Lit("Members")>>
\* the calls between the "defined at" paragraph and the Members heading
ImplementerBlock(log) == SubSeq(log, 3, MembersAt(log) - 1)
ImplementerLinks(log) == Fragments(ImplementerBlock(log), "link")

NameMatches(t) ==
  SelectSeq(apiDocs, LAMBDA a :
     \E k \in 1..Len(a.interfaceInfos) : a.interfaceInfos[k].name = t.name)
IdMatches(t) ==
  SelectSeq(apiDocs, LAMBDA a :
     \E k \in 1..Len(a.interfaceInfos) : a.interfaceInfos[k].id = t.id)
Ids(s) == [k \in 1..Len(s) |-> s[k].id]

(* ------------------------------- C6 ----------------------------------- *)
\* C6: an index page holds, after its title and introduction, one level-3
\* heading per API entry, in input order, the i-th anchored by the i-th
\* entry's id and followed by that entry's description paragraph, its
\* implemented-types paragraph and its source-link paragraph, in that order.
IndexSectionsInInputOrder ==
  \A c \in Returned("index") :
    LET log == LogOf(c) IN
    /\ Len(log) = 2 + 4 * Len(apiDocs)
    /\ { k \in 1..Len(log) : IsHeader(log[k], 3) }
         = { SectionBase(i) + 1 : i \in 1..Len(apiDocs) }
    /\ \A i \in 1..Len(apiDocs) :
         LET b == SectionBase(i) IN
         /\ log[b + 1].anchor = apiDocs[i].id
         /\ log[b + 2] = Paragraph(<<Val(apiDocs[i].description)>>)
         /\ IsParagraph(log[b + 3], "Implemented type")
         /\ IsParagraph(log[b + 4], "ApiRef: ")
         /\ log[b + 4].text[2].kind = "src"
         /\ log[b + 4].text[2].id = apiDocs[i].id

\* an index page of two entries whose ids are not in ascending order
IndexOfTwoUnordered ==
  /\ Returned("index") /= {}
  /\ Len(apiDocs) = 2
  /\ apiDocs[1].id = "a3" /\ apiDocs[2].id = "a1"

(* ------------------------------- C2 ----------------------------------- *)
\* C2 as amended: the label of the implemented-types paragraph is plural
\* ("types") if and only if the entry implements more than one interface;
\* with one interface and with none it is singular ("type").
PluralIffSeveral ==
  \A c \in Returned("index") : \A i \in 1..Len(apiDocs) :
    LET p == LogOf(c)[SectionBase(i) + 3] IN
    /\ IsParagraph(p, "Implemented type")
    /\ p.text[2] = (IF Len(apiDocs[i].interfaceInfos) > 1 THEN Lit("s") ELSE Lit(""))

\* C2 as stated: singular if and only if exactly one interface, plural for
\* every other count, zero included.
SingularIffExactlyOne ==
  \A c \in Returned("index") : \A i \in 1..Len(apiDocs) :
    LET p == LogOf(c)[SectionBase(i) + 3] IN
    p.text[2] = (IF Len(apiDocs[i].interfaceInfos) = 1 THEN Lit("") ELSE Lit("s"))

\* an index page with an entry of no interface and an entry of two
IndexOfNoneAndTwo ==
  /\ Returned("index") /= {}
  /\ \E i, j \in 1..Len(apiDocs) :
       Len(apiDocs[i].interfaceInfos) = 0 /\ Len(apiDocs[j].interfaceInfos) = 2

ImplementerLabelsRaw ==
  \A c \in Returned("interface") :
    LET links == ImplementerLinks(LogOf(c)) IN
    /\ Len(links) = Len(NameMatches(apiType))
    /\ \A k \in 1..Len(links) :
         LET a == NameMatches(apiType)[k] IN
         /\ links[k].name = a.name
         /\ IF EndsWith(a.name, Marker)
            THEN links[k].disp \o Marker = a.name
            ELSE links[k].disp = a.name

\* C4 as stated: with one implementer the label is the raw name, with two or
\* more each label is the raw name without its trailing ApiRef.
ImplementerLabelsByBranch ==
  \A c \in Returned("interface") :
    LET links == ImplementerLinks(LogOf(c)) IN
    \A k \in 1..Len(links) :
      LET a == NameMatches(apiType)[k] IN
      IF Len(links) = 1 THEN links[k].name = a.name
      ELSE IF EndsWith(a.name, Marker) THEN links[k].name \o Marker = a.name
      ELSE links[k].name = a.name

\* a page with two implementers whose names end with ApiRef
PageWithTwoApiRefs ==
  /\ Returned("interface") /= {}
  /\ Len(NameMatches(apiType)) = 2
  /\ \A k \in 1..2 : EndsWith(NameMatches(apiType)[k].name, Marker)

(* ------------------------------- C5 ----------------------------------- *)
\* C5: the implementer block is the one-sentence paragraph holding the link
\* if and only if there is exactly one implementer; otherwise it is the
\* introductory paragraph followed by one text item per implementer, none
\* when there is none, and the Members heading follows.
BranchByImplementerCount ==
  \A c \in Returned("interface") :
    LET log == LogOf(c)
        block == ImplementerBlock(log)
        n == Cardinality({ i \in 1..Len(apiDocs) :
               \E k \in 1..Len(apiDocs[i].interfaceInfos) :
                  apiDocs[i].interfaceInfos[k].name = apiType.name })
    IN
    /\ \E m \in 4..Len(log) : IsHeader(log[m], 2) /\ log[m].text = <<Lit("Members")>>
    /\ IF n = 1
       THEN /\ Len(block) = 1
            /\ IsParagraph(block[1], "The following Utility API implements this type: ")
            /\ Len(block[1].text) = 2
            /\ block[1].text[2].kind = "link"
       ELSE /\ Len(block) = 1 + n
            /\ block[1] = Paragraph(<<Lit("The following Utility APIs implement this type:")>>)
            /\ \A k \in 2..Len(block) :
                 /\ block[k].op = "text"
                 /\ Len(block[k].text) = 2
                 /\ block[k].text[1] = Lit("  - ")
                 /\ block[k].text[2].kind = "link"

\* a page of a type that no entry implements
PageWithoutImplementer ==
  /\ Returned("interface") /= {}
  /\ Len(apiDocs) > 0
  /\ Len(NameMatches(apiType)) = 0

(* ------------------------------- C7 ----------------------------------- *)
\* the calls after the "Supporting types" heading (none without it)
SupportingRun(log) ==
  IF \E m \in 1..Len(log) :
        IsHeader(log[m], 2) /\ log[m].text = <<Lit("Supporting types")>>
  THEN SubSeq(log,
         1 + (CHOOSE m \in 1..Len(log) :
                IsHeader(log[m], 2) /\ log[m].text = <<Lit("Supporting types")>>),
         Len(log))
  ELSE <<>>
\* the anchors of the dependent types' headings, in page order
TypeHeadings(log) ==
  LET hs == SelectSeq(SupportingRun(log), LAMBDA call : IsHeader(call, 3))
  IN [k \in 1..Len(hs) |-> hs[k].anchor]
\* the place in apiType.dependentTypes of the type with this path
PlaceOf(path) ==
  CHOOSE i \in 1..Len(apiType.dependentTypes) : apiType.dependentTypes[i].path = path

\* C7: the dependent types' headings are one per dependent type, in
\* ascending order of name (by code units), and two types of equal name are
\* in their input order.
DependentTypesByName ==
  \A c \in Returned("interface") :
    LET hs == TypeHeadings(LogOf(c))
        deps == apiType.dependentTypes
    IN
    /\ Len(hs) = Len(deps)
    /\ \A k \in 1..Len(hs) : \E i \in 1..Len(deps) : deps[i].path = hs[k]
    /\ \A k \in 1..(Len(hs) - 1) :
         LET i == PlaceOf(hs[k])
             j == PlaceOf(hs[k + 1])
         IN \/ StringLess(deps[i].name, deps[j].name)
            \/ (deps[i].name = deps[j].name /\ i < j)

\* the page of a type whose dependent types arrive as Zebra, Apple, Mango
PageOfZebraAppleMango ==
  /\ Returned("interface") /= {}
  /\ [k \in 1..Len(apiType.dependentTypes) |-> apiType.dependentTypes[k].name]
       = <<Zebra, Apple, Mango>>

(* ------------------------------- C8 ----------------------------------- *)
\* the calls of the section of the dependent type with this path
TypeSectionRun(log, path) ==
  LET run == SupportingRun(log)
      from == CHOOSE k \in 1..Len(run) : IsHeader(run[k], 3) /\ run[k].anchor = path
      later == { k \in (from + 1)..Len(run) : IsHeader(run[k], 3) }
      to == IF later = {} THEN Len(run)
            ELSE (CHOOSE k \in later : \A l \in later : k <= l) - 1
  IN SubSeq(run, from, to)
\* the members and dependent types that link to the type, in model order
Referrers(type) ==
  SelectSeq(apiType.members \o apiType.dependentTypes, LAMBDA m :
     \E k \in 1..Len(m.links) : m.links[k].id = type.id)

\* C8: the section of a dependent type T ends with its "Defined at"
\* paragraph when nothing of the interface links to T, and otherwise with one
\* "Referenced by" paragraph right after it, whose links are exactly the
\* members and dependent types linking to T (T included if it links to
\* itself).
ReferencedByExact ==
  \A c \in Returned("interface") :
    \A j \in 1..Len(apiType.dependentTypes) :
      LET type == apiType.dependentTypes[j]
          sec == TypeSectionRun(LogOf(c), type.path)
          defs == { k \in 1..Len(sec) : IsParagraph(sec[k], "Defined at ") }
          refs == { k \in 1..Len(sec) : IsParagraph(sec[k], "Referenced by: ") }
          who == Referrers(type)
      IN
      /\ Cardinality(defs) = 1
      /\ IF Len(who) = 0
         THEN refs = {} /\ defs = {Len(sec)}
         ELSE /\ refs = {Len(sec)}
              /\ defs = {Len(sec) - 1}
              /\ LET links == Fragments(<<sec[Len(sec)]>>, "link") IN
                 /\ Len(links) = Len(who)
                 /\ \A k \in 1..Len(who) :
                      links[k].name = who[k].name /\ links[k].id = who[k].path

\* a page with a type that links to itself, a type a member links to and a
\* type nothing links to
PageWithSelfLinkAndUnreferenced ==
  /\ Returned("interface") /= {}
  /\ \E i, j \in 1..Len(apiType.dependentTypes) :
       /\ \E k \in 1..Len(apiType.dependentTypes[i].links) :
            apiType.dependentTypes[i].links[k].id = apiType.dependentTypes[i].id
       /\ Len(Referrers(apiType.dependentTypes[j])) = 0
  /\ \E m \in 1..Len(apiType.members), j \in 1..Len(apiType.dependentTypes) :
       \E k \in 1..Len(apiType.members[m].links) :
          apiType.members[m].links[k].id = apiType.dependentTypes[j].id

(* ------------------------------- C9 ----------------------------------- *)
\* C9: no render call changes the API collection or the interface type:
\* every step leaves both as they were, element for element.
InputModelUnchanged == [][apiDocs' = apiDocs /\ apiType' = apiType]_vars

\* a page printed for a type whose dependent types are not in name order
PageOfUnsortedTypes ==
  /\ Returned("interface") /= {}
  /\ \E i, j \in 1..Len(apiType.dependentTypes) :
       i < j /\ StringLess(apiType.dependentTypes[j].name, apiType.dependentTypes[i].name)

(* --------------- render calls, one printer call at a time ------------- *)
\* the models the interleaved calls run on
ConcModels ==
  { [docs |-> << CHOOSE a \in ApiCatalogue : a.id = "a1" >>,
     type |-> InterfaceInfo(T1, <<>>,
                << CHOOSE d \in DepCatalogue : d.id = "d2" >>)],
    [docs |-> << CHOOSE a \in ApiCatalogue : a.id = "a3",
                 CHOOSE a \in ApiCatalogue : a.id = "a1" >>,
     type |-> InterfaceInfo(T1,
                << CHOOSE m \in MemberCatalogue : m.path = "m2" >>,
                << CHOOSE d \in DepCatalogue : d.id = "d3",
                   CHOOSE d \in DepCatalogue : d.id = "d1" >>)] }

InitConc ==
  /\ \E m \in ConcModels : apiDocs = m.docs /\ apiType = m.type
  /\ surfaces = <<>>
  /\ calls = <<>>
  /\ naming = NoNaming

\* the printer calls a render call makes, from its arguments
Script(c) ==
  IF calls[c].kind = "index"
  THEN PrintApiIndexCalls(apiDocs)
  ELSE PrintInterfaceCalls(apiType, apiDocs)

\* variant: one printer kept for all calls
FirstPrinter(c) == 1
\* `const printer = this.printerFactory()`: a local of the call
PrinterOf(c) == calls[c].printer

\* printApiIndex is entered: the factory is invoked
EnterPrintApiIndex ==
  /\ Len(calls) < MaxCalls
  /\ surfaces' = Append(surfaces, NewSurface)
  /\ calls' = Append(calls, [kind |-> "index", printer |-> Len(surfaces) + 1,
                             pc |-> 0, status |-> "running"])
  /\ UNCHANGED <<apiDocs, apiType, naming>>

\* printInterface is entered: the factory is invoked
EnterPrintInterface ==
  /\ Len(calls) < MaxCalls
  /\ surfaces' = Append(surfaces, NewSurface)
  /\ calls' = Append(calls, [kind |-> "interface", printer |-> Len(surfaces) + 1,
                             pc |-> 0, status |-> "running"])
  /\ UNCHANGED <<apiDocs, apiType, naming>>

\* call c makes its next header, paragraph, text or code call; the step that
\* enters the loop of addInterfaceTypes evaluates .slice().sort(...)
PrinterCall(c) ==
  /\ calls[c].status = "running"
  /\ calls[c].pc < Len(Script(c))
  /\ surfaces' = [surfaces EXCEPT ![PrinterOf(c)].log =
                    Append(@, Script(c)[calls[c].pc + 1])]
  /\ calls' = [calls EXCEPT ![c].pc = @ + 1]
  /\ apiType' =
       IF /\ calls[c].kind = "interface"
          /\ calls[c].pc = Len(Script(c)) - Len(AddInterfaceTypes(apiType))
       THEN AfterPrintInterface(apiType)
       ELSE apiType
  /\ UNCHANGED <<apiDocs, naming>>

\* `return printer.toBuffer()`
ToBuffer(c) ==
  /\ calls[c].status = "running"
  /\ calls[c].pc = Len(Script(c))
  /\ surfaces' = [surfaces EXCEPT ![PrinterOf(c)].buffered = TRUE]
  /\ calls' = [calls EXCEPT ![c].status = "returned"]
  /\ UNCHANGED <<apiDocs, apiType, naming>>

NextConc ==
  \/ EnterPrintApiIndex
  \/ EnterPrintInterface
  \/ \E c \in 1..Len(calls) : PrinterCall(c)
  \/ \E c \in 1..Len(calls) : ToBuffer(c)

SpecConc == InitConc /\ [][NextConc]_vars

(* ------------------------------- C10 ---------------------------------- *)
\* what a render call of this kind prints when it runs alone
AloneLog(kind) ==
  IF kind = "index" THEN PrintApiIndexCalls(apiDocs)
  ELSE PrintInterfaceCalls(apiType, apiDocs)

\* C10: whatever the interleaving, the factory has been invoked once per
\* render call, no two calls hold the same surface, the calls printed so far
\* on a call's surface are the first pc calls of what it prints alone and
\* nothing else, and the surface is finished with toBuffer exactly when the
\* call has returned, having printed all of it.
RenderCallsIsolated ==
  /\ Len(surfaces) = Len(calls)
  /\ \A c \in 1..Len(calls) :
       /\ calls[c].printer \in 1..Len(surfaces)
       /\ \A d \in 1..Len(calls) : d /= c => calls[d].printer /= calls[c].printer
       /\ surfaces[calls[c].printer].log
            = SubSeq(AloneLog(calls[c].kind), 1, calls[c].pc)
       /\ surfaces[calls[c].printer].buffered = (calls[c].status = "returned")
       /\ calls[c].status = "returned" => calls[c].pc = Len(AloneLog(calls[c].kind))

\* two render calls under way at once, each having printed some and not all
TwoCallsUnderWay ==
  /\ Len(calls) >= 2
  /\ \A c \in 1..2 :
       /\ calls[c].status = "running"
       /\ calls[c].pc > 1
       /\ calls[c].pc < Len(AloneLog(calls[c].kind))
  /\ calls[1].kind /= calls[2].kind

(* -------------------------- apiDisplayName ---------------------------- *)
Api == <<"A","p","i">>
Ref == <<"R","e","f">>
Pieces == { Foo, Marker, Api, Ref }
\* the raw names: up to MaxPieces pieces, one after the other
RawNames ==
  { Flatten(q) : q \in UNION { [1..k -> Pieces] : k \in 0..MaxPieces } }

InitNames ==
  /\ naming \in { [raw |-> n, shown |-> <<>>, marked |-> <<>>] : n \in RawNames }
  /\ apiDocs = <<>>
  /\ apiType = InterfaceInfo(T1, <<>>, <<>>)
  /\ surfaces = <<>>
  /\ calls = <<>>

\* apiDisplayName of the raw name, then of its own result
DisplayName ==
  /\ Len(naming.shown) < MaxApplications
  /\ naming' = [naming EXCEPT !.shown =
        Append(@, ApiDisplayName(IF Len(@) = 0 THEN naming.raw ELSE @[Len(@)]))]
  /\ UNCHANGED <<apiDocs, apiType, surfaces, calls>>

\* apiDisplayName of the raw name with ApiRef appended
DisplayNameOfMarked ==
  /\ Len(naming.marked) = 0
  /\ naming' = [naming EXCEPT !.marked = <<ApiDisplayName(naming.raw \o Marker)>>]
  /\ UNCHANGED <<apiDocs, apiType, surfaces, calls>>

NextNames == DisplayName \/ DisplayNameOfMarked

SpecNames == InitNames /\ [][NextNames]_vars

(* ------------------------------- C3 ----------------------------------- *)
\* C3 as amended: apiDisplayName removes one trailing ApiRef and no more:
\* the display name of name + ApiRef is name itself, a name ending with
\* ApiRef loses exactly that suffix and any other name is returned as it is;
\* unless the name ends with ApiRef twice, the display name does not end
\* with ApiRef and is its own display name.
StripsOneMarker ==
  /\ Len(naming.marked) = 1 => naming.marked[1] = naming.raw
  /\ Len(naming.shown) >= 1 =>
       IF EndsWith(naming.raw, Marker)
       THEN naming.shown[1] \o Marker = naming.raw
       ELSE naming.shown[1] = naming.raw
  /\ (Len(naming.shown) >= 2 /\ ~EndsWith(naming.raw, Marker \o Marker)) =>
       /\ ~EndsWith(naming.shown[1], Marker)
       /\ naming.shown[2] = naming.shown[1]

\* C3 as stated: the display name of name + ApiRef is that of name, the
\* display name is its own display name, and it never ends with ApiRef.
DisplayNameIdempotent ==
  /\ (Len(naming.marked) = 1 /\ Len(naming.shown) >= 1) =>
       naming.marked[1] = naming.shown[1]
  /\ Len(naming.shown) >= 1 => ~EndsWith(naming.shown[1], Marker)
  /\ Len(naming.shown) >= 2 => naming.shown[2] = naming.shown[1]

\* FooApiRefApiRef shown as FooApiRef and, shown again, as Foo
ShownTwiceFromDoubleMarker ==
  /\ naming.raw = Foo \o Marker \o Marker
  /\ naming.shown = <<Foo \o Marker, Foo>>
  /\ naming.marked = <<Foo \o Marker \o Marker>>
====
